---- MODULE Spec2Model ----
(***************************************************************************)
(* The search engine of src/backend/server.js (the "enterprise search      *)
(* engine" section, lines 307-666): text normalisation, intent             *)
(* classification, auto-correction, synonym expansion, scoring and the      *)
(* fallback retriever, over an in-memory catalog.                           *)
(*                                                                         *)
(* A JavaScript string is a sequence of one-character strings.  Characters *)
(* outside ASCII are named tokens ("e_grave" is U+00E8, "COMBINING_GRAVE"  *)
(* is U+0300, "TAB" is U+0009, "CIRCUMFLEX" is U+005E, "GRAVE" is U+0060).   *)
(* Scores are kept in tenths, so that the                                  *)
(* intent weights 0.3, 0.5 and 1.5 stay integers: a score of 2500 in the    *)
(* source is 25000 here.                                                   *)
(***************************************************************************)
EXTENDS Integers, Sequences, FiniteSets, TLC

VARIABLES
    products,          \* appState.products: the catalog handed to searchProducts
    dataFile,          \* the parsed content of data/products.json the catalog came from
    SYNONYMS,          \* the synonym dictionary, as Object.entries(SYNONYMS)
    AUTO_CORRECTIONS,  \* the correction dictionary, as Object.entries(AUTO_CORRECTIONS)
    call,              \* the last call of an exported or internal function: fn, arg, ret
    ncalls,            \* how many calls have returned
    isReady,           \* appState.isReady
    loadError,         \* appState.loadError: "null" or the message of the error
    loadedAt,          \* appState.loadedAt: 0 for null, else the number of the load
    productCount,      \* appState.productCount
    fileKind,          \* what is at DATA_PATH: no file, an empty file, text that
                       \* is not JSON, JSON that is not an array, or an array
    listening,         \* whether app.listen has been called
    lastLoad,          \* history: how many loads ran, whether the last one
                       \* succeeded, the array the last successful one installed
    response           \* the last HTTP response sent

\* the server around the catalog: the rest of appState, the file, the HTTP side
server == <<isReady, loadError, loadedAt, productCount, fileKind, listening,
            lastLoad, response>>

vars == <<products, dataFile, SYNONYMS, AUTO_CORRECTIONS, call, ncalls, server>>

----------------------------------------------------------------------------
(* Bounds of the model *)

\* longest raw text handed to normalize
MaxText == 4
\* most words in a query handed to autoCorrect / expandWithSynonyms
MaxWords == 2
\* longest haystack handed to fuzzyMatch
MaxHaystack == 5
\* longest pattern handed to fuzzyMatch
MaxPattern == 4
\* most products in a catalog
MaxCatalog == 6
\* most products in a catalog that several calls share
MaxShared == 2
\* most searchProducts calls in a behaviour of several calls
MaxCalls == 2

----------------------------------------------------------------------------
(* Characters and JavaScript string primitives *)

Letters == {"a","b","c","d","e","f","g","h","i","j","k","l","m",
            "n","o","p","q","r","s","t","u","v","w","x","y","z"}

Digits == {"0","1","2","3","4","5","6","7","8","9"}

UpperCase == <<"A","B","C","D","E","F","G","H","I","J","K","L","M",
               "N","O","P","Q","R","S","T","U","V","W","X","Y","Z","E_GRAVE">>

LowerCase == <<"a","b","c","d","e","f","g","h","i","j","k","l","m",
               "n","o","p","q","r","s","t","u","v","w","x","y","z","e_grave">>

\* the characters the regular expression class \s matches
Whitespace == {" ", "TAB"}

\* the characters with the Unicode property Diacritic (\p{Diacritic})
Diacritic == {"COMBINING_GRAVE", "CIRCUMFLEX", "GRAVE"}

\* a field a product record lacks (JavaScript undefined)
Absent == <<"undefined">>

\* whether p occurs in s at offset i (0-based)
MatchAt(s, p, i) == \A j \in 1..Len(p) : s[i + j] = p[j]

\* String.prototype.includes
Includes(s, p) ==
    \E i \in 0..(Len(s) - Len(p)) : MatchAt(s, p, i)

\* String.prototype.indexOf, 0-based, for a pattern that occurs
IndexOf(s, p) ==
    CHOOSE i \in 0..(Len(s) - Len(p)) :
        /\ MatchAt(s, p, i)
        /\ \A k \in 0..(i - 1) : ~MatchAt(s, p, k)

\* String.prototype.startsWith
StartsWith(s, p) == Len(p) <= Len(s) /\ MatchAt(s, p, 0)

\* String.prototype.replace with a string pattern: the first occurrence only
ReplaceFirst(s, p, r) ==
    IF ~Includes(s, p) THEN s
    ELSE LET i == IndexOf(s, p)
         IN  SubSeq(s, 1, i) \o r \o SubSeq(s, i + Len(p) + 1, Len(s))

\* String.prototype.split(" "): the pieces between single spaces, empty ones kept
RECURSIVE SplitFrom(_, _, _)
SplitFrom(s, i, piece) ==
    IF i > Len(s) THEN <<piece>>
    ELSE IF s[i] = " " THEN <<piece>> \o SplitFrom(s, i + 1, <<>>)
    ELSE SplitFrom(s, i + 1, Append(piece, s[i]))

Split(s) == SplitFrom(s, 1, <<>>)

\* .split(" ").filter(Boolean): the non-empty pieces
Tokens(s) == SelectSeq(Split(s), LAMBDA t : t # <<>>)

----------------------------------------------------------------------------
(* The dictionaries, in the order Object.entries iterates them *)

SynonymEntries ==
  <<
     [key |-> <<"i","n","t","e","r","r","u","t","t","o","r","e">>,
      synonyms |-> << <<"s","w","i","t","c","h">>,
                    <<"p","u","l","s","a","n","t","e">>,
                    <<"d","e","v","i","a","t","o","r","e">> >>],
     [key |-> <<"p","r","e","s","a">>,
      synonyms |-> << <<"s","o","c","k","e","t">>,
                    <<"s","p","i","n","a">> >>],
     [key |-> <<"l","a","m","p","a","d","a">>,
      synonyms |-> << <<"l","a","m","p","a","d","i","n","a">>,
                    <<"l","e","d">>,
                    <<"l","u","c","e">>,
                    <<"b","u","l","b","o">> >>],
     [key |-> <<"c","a","v","o">>,
      synonyms |-> << <<"f","i","l","o">>,
                    <<"c","a","v","e","t","t","o">>,
                    <<"c","a","b","l","e">> >>],
     [key |-> <<"s","c","a","t","o","l","a">>,
      synonyms |-> << <<"b","o","x">>,
                    <<"c","o","n","t","e","n","i","t","o","r","e">> >>],
     [key |-> <<"q","u","a","d","r","o">>,
      synonyms |-> << <<"c","e","n","t","r","a","l","i","n","o">>,
                    <<"p","a","n","n","e","l","l","o">> >>],
     [key |-> <<"r","e","l","e_grave">>,
      synonyms |-> << <<"r","e","l","e">>,
                    <<"r","e","l","a","y">> >>],
     [key |-> <<"t","r","a","s","f","o","r","m","a","t","o","r","e">>,
      synonyms |-> << <<"t","r","a","f","o">> >>],
     [key |-> <<"m","a","g","n","e","t","o","t","e","r","m","i","c","o">>,
      synonyms |-> << <<"s","a","l","v","a","v","i","t","a">>,
                    <<"d","i","f","f","e","r","e","n","z","i","a","l","e">> >>],
     [key |-> <<"b","t","c">>,
      synonyms |-> << <<"b","t","i","c","i","n","o">> >>],
     [key |-> <<"g","e","w","i","s","s">>,
      synonyms |-> << <<"g","w">> >>],
     [key |-> <<"a","b","b">>,
      synonyms |-> << <<"a","b","b">> >>],
     [key |-> <<"i","n","t","u","r","r","e","t","t","o","r","e">>,
      synonyms |-> << <<"i","n","t","e","r","r","u","t","t","o","r","e">> >>],
     [key |-> <<"i","n","t","e","r","r","u","t","t","o","r","w">>,
      synonyms |-> << <<"i","n","t","e","r","r","u","t","t","o","r","e">> >>],
     [key |-> <<"l","a","m","p","a","d","i","n","s">>,
      synonyms |-> << <<"l","a","m","p","a","d","i","n","a">> >>],
     [key |-> <<"q","u","a","d","r">>,
      synonyms |-> << <<"q","u","a","d","r","o">> >>]
  >>

AutoCorrectionEntries ==
  <<
     [error |-> <<"i","n","t","u","r","r","e","t","t","o","r","e">>,
      correction |-> <<"i","n","t","e","r","r","u","t","t","o","r","e">>],
     [error |-> <<"i","n","t","e","r","r","u","t","t","o","r","w">>,
      correction |-> <<"i","n","t","e","r","r","u","t","t","o","r","e">>],
     [error |-> <<"l","a","m","p","a","d","i","n","s">>,
      correction |-> <<"l","a","m","p","a","d","i","n","a">>],
     [error |-> <<"t","r","a","s","o","f","r","m","a","t","o","r","e">>,
      correction |-> <<"t","r","a","s","f","o","r","m","a","t","o","r","e">>],
     [error |-> <<"m","a","g","n","e","t","o","t","e","r","m","i","c">>,
      correction |-> <<"m","a","g","n","e","t","o","t","e","r","m","i","c","o">>],
     [error |-> <<"b","t","c","i","n","o">>,
      correction |-> <<"b","t","i","c","i","n","o">>],
     [error |-> <<"g","e","w","i","s">>,
      correction |-> <<"g","e","w","i","s","s">>]
  >>

----------------------------------------------------------------------------
(* normalize, lines 347-355 *)

\* String(value || ""): an absent or empty value is the empty string
ToStr(value) == IF value = Absent \/ value = <<>> THEN <<>> ELSE value

\* the position of every upper-case character in UpperCase
UpperIndex == [c \in {UpperCase[i] : i \in 1..Len(UpperCase)} |->
                 CHOOSE i \in 1..Len(UpperCase) : UpperCase[i] = c]

\* the lower-case form of one character
LowerChar(c) == IF c \in DOMAIN UpperIndex THEN LowerCase[UpperIndex[c]] ELSE c

\* .toLowerCase()
ToLowerCase(s) == [i \in 1..Len(s) |-> LowerChar(s[i])]

\* .normalize("NFD"): a precomposed letter becomes its base letter and a combining mark
RECURSIVE NFD(_)
NFD(s) ==
    IF s = <<>> THEN <<>>
    ELSE (IF Head(s) = "e_grave" THEN <<"e", "COMBINING_GRAVE">>
          ELSE IF Head(s) = "E_GRAVE" THEN <<"E", "COMBINING_GRAVE">>
          ELSE <<Head(s)>>) \o NFD(Tail(s))

\* .replace(/\p{Diacritic}/gu, "")
StripDiacritics(s) == SelectSeq(s, LAMBDA c : c \notin Diacritic)

\* the characters the class [a-z0-9\s\-_.] matches
Allowed == Letters \cup Digits \cup Whitespace \cup {"-", "_", "."}

\* .replace(/[^a-z0-9\s\-_.]/g, " ")
ReplaceDisallowed(s) == [i \in 1..Len(s) |-> IF s[i] \in Allowed THEN s[i] ELSE " "]

\* .replace(/\s+/g, " "): every run of whitespace becomes one space
RECURSIVE CollapseWhitespace(_)
CollapseWhitespace(s) ==
    IF s = <<>> THEN <<>>
    ELSE IF Head(s) \in Whitespace
         THEN IF Len(s) > 1 /\ s[2] \in Whitespace
              THEN CollapseWhitespace(Tail(s))
              ELSE <<" ">> \o CollapseWhitespace(Tail(s))
         ELSE <<Head(s)>> \o CollapseWhitespace(Tail(s))

\* .trim()
RECURSIVE TrimStart(_)
TrimStart(s) ==
    IF s # <<>> /\ Head(s) \in Whitespace THEN TrimStart(Tail(s)) ELSE s

RECURSIVE TrimEnd(_)
TrimEnd(s) ==
    IF s # <<>> /\ s[Len(s)] \in Whitespace
    THEN TrimEnd(SubSeq(s, 1, Len(s) - 1)) ELSE s

Trim(s) == TrimEnd(TrimStart(s))

\* a variant that collapses whitespace before replacing the disallowed characters
normalizeCollapseFirst(value) ==
    Trim(ReplaceDisallowed(CollapseWhitespace(
        StripDiacritics(NFD(ToLowerCase(ToStr(value)))))))

normalize(value) ==
    Trim(CollapseWhitespace(ReplaceDisallowed(
        StripDiacritics(NFD(ToLowerCase(ToStr(value)))))))

----------------------------------------------------------------------------
(* autoCorrect, lines 384-395 *)

\* the loop over Object.entries(AUTO_CORRECTIONS): every matching entry overwrites
\* `corrected` with a rewrite of `normalized`
RECURSIVE autoCorrectFrom(_, _, _, _)
autoCorrectFrom(entries, i, normalized, corrected) ==
    IF i > Len(entries) THEN corrected
    ELSE autoCorrectFrom(entries, i + 1, normalized,
            IF Includes(normalized, entries[i].error)
            THEN ReplaceFirst(normalized, entries[i].error, entries[i].correction)
            ELSE corrected)

autoCorrect(query) == autoCorrectFrom(AUTO_CORRECTIONS, 1, normalize(query), query)

----------------------------------------------------------------------------
(* expandWithSynonyms, lines 358-381 *)

\* lines 364-369: the key replaced by each synonym, when the key occurs
KeyToSynonyms(normalized, entry) ==
    IF Includes(normalized, entry.key)
    THEN [j \in 1..Len(entry.synonyms) |->
            ReplaceFirst(normalized, entry.key, entry.synonyms[j])]
    ELSE <<>>

\* lines 372-377: every synonym that occurs replaced by the key
RECURSIVE SynonymsToKey(_, _, _)
SynonymsToKey(normalized, entry, j) ==
    IF j > Len(entry.synonyms) THEN <<>>
    ELSE (IF Includes(normalized, entry.synonyms[j])
          THEN <<ReplaceFirst(normalized, entry.synonyms[j], entry.key)>>
          ELSE <<>>) \o SynonymsToKey(normalized, entry, j + 1)

\* the loop over Object.entries(SYNONYMS), pushing onto `expanded`
RECURSIVE expandFrom(_, _, _, _)
expandFrom(entries, i, normalized, expanded) ==
    IF i > Len(entries) THEN expanded
    ELSE expandFrom(entries, i + 1, normalized,
            expanded \o KeyToSynonyms(normalized, entries[i])
                     \o SynonymsToKey(normalized, entries[i], 1))

\* [...new Set(list)]: the first occurrence of every element, in order
RECURSIVE SetOrder(_)
SetOrder(list) ==
    IF list = <<>> THEN <<>>
    ELSE LET front == SetOrder(SubSeq(list, 1, Len(list) - 1))
             last  == list[Len(list)]
         IN  IF \E k \in 1..Len(front) : front[k] = last
             THEN front ELSE Append(front, last)

\* a variant that returns `expanded` without removing the duplicates
expandWithSynonymsNoDedup(query) ==
    expandFrom(SYNONYMS, 1, normalize(query), <<query>>)

expandWithSynonyms(query) ==
    SetOrder(expandFrom(SYNONYMS, 1, normalize(query), <<query>>))

----------------------------------------------------------------------------
(* classifyIntent, lines 398-420 *)

classifyIntent(query) ==
    LET normalized == normalize(query)
        hasNumbers == \E i \in 1..Len(normalized) : normalized[i] \in Digits
        hasLetters == \E i \in 1..Len(normalized) : normalized[i] \in Letters
        isShort    == Len(normalized) <= 15
        fewWords   == Len(Split(normalized)) <= 2
    IN  IF hasNumbers /\ hasLetters /\ isShort /\ fewWords THEN "CODE"
        ELSE IF hasNumbers /\ ~hasLetters THEN "CODE"
        ELSE IF ~hasNumbers /\ Len(Split(normalized)) = 1 THEN "CATEGORY"
        ELSE "PRODUCT"

----------------------------------------------------------------------------
(* fuzzyMatch, lines 423-437 *)

\* the inner loop from position j (0-based) of the window at i: the value of
\* `diff` when the loop ends or breaks
RECURSIVE diffCount(_, _, _, _, _)
diffCount(str, pattern, i, j, diff) ==
    IF j >= Len(pattern) THEN diff
    ELSE LET d == IF str[i + j + 1] # pattern[j + 1] THEN diff + 1 ELSE diff
         IN  IF d > 1 THEN d ELSE diffCount(str, pattern, i, j + 1, d)

\* the outer loop from window i (0-based)
RECURSIVE fuzzyWindows(_, _, _)
fuzzyWindows(str, pattern, i) ==
    IF i > Len(str) - Len(pattern) THEN FALSE
    ELSE IF diffCount(str, pattern, i, 0, 0) <= 1 THEN TRUE
    ELSE fuzzyWindows(str, pattern, i + 1)

\* a variant without the guard on patterns shorter than 3
fuzzyMatchNoLengthGuard(str, pattern) ==
    IF Includes(str, pattern) THEN TRUE
    ELSE fuzzyWindows(str, pattern, 0)

fuzzyMatch(str, pattern) ==
    IF Includes(str, pattern) THEN TRUE
    ELSE IF Len(pattern) < 3 THEN FALSE
    ELSE fuzzyWindows(str, pattern, 0)

----------------------------------------------------------------------------
(* scoreProduct, lines 440-507.  Scores and weights are in tenths. *)

\* intentBoost[intent] || intentBoost.PRODUCT, lines 449-455
intentBoost(intent) ==
    CASE intent = "CODE"     -> [code |-> 30, name |-> 10, category |-> 3]
      [] intent = "CATEGORY" -> [code |-> 5,  name |-> 15, category |-> 30]
      [] OTHER               -> [code |-> 10, name |-> 30, category |-> 10]

\* lines 477-491: what one token adds to tokenScore; 0 when it matches no field
TokenScore(token, code, name, category, description, boost) ==
    IF Includes(code, token) THEN 300 * boost.code
    ELSE IF Includes(name, token) THEN 150 * boost.name
    ELSE IF Includes(category, token) THEN 100 * boost.category
    ELSE IF Includes(description, token) THEN 500
    ELSE 0

RECURSIVE SumSeq(_)
SumSeq(xs) == IF xs = <<>> THEN 0 ELSE Head(xs) + SumSeq(Tail(xs))

\* lines 473-499: the multi-token bonus, doubled when every token matched
MultiTokenScore(tokens, code, name, category, description, boost) ==
    IF Len(tokens) > 1
    THEN LET each == [k \in 1..Len(tokens) |->
                        TokenScore(tokens[k], code, name, category, description, boost)]
             tokenMatches == Cardinality({k \in 1..Len(tokens) : each[k] > 0})
         IN  IF tokenMatches = Len(tokens) THEN 2 * SumSeq(each) ELSE SumSeq(each)
    ELSE 0

\* lines 458-506, on the normalized fields of the product
ScoreFields(code, name, category, description, query, tokens, boost) ==
    LET score ==
            (IF StartsWith(code, query) THEN 5000 * boost.code ELSE 0)
          + (IF Includes(code, query) THEN 2500 * boost.code ELSE 0)
          + (IF fuzzyMatch(code, query) THEN 1200 * boost.code ELSE 0)
          + (IF name = query THEN 3000 * boost.name ELSE 0)
          + (IF StartsWith(name, query) THEN 1500 * boost.name ELSE 0)
          + (IF Includes(name, query) THEN 800 * boost.name ELSE 0)
          + (IF fuzzyMatch(name, query) THEN 400 * boost.name ELSE 0)
          + (IF Includes(category, query) THEN 600 * boost.category ELSE 0)
          + MultiTokenScore(tokens, code, name, category, description, boost)
    IN  IF code = query THEN 10000 * boost.code
        ELSE IF score < 5000 /\ Includes(description, query) THEN score + 2000
        ELSE score

scoreProduct(product, query, tokens, intent) ==
    ScoreFields(normalize(product.code), normalize(product.name),
                normalize(product.category), normalize(product.description),
                query, tokens, intentBoost(intent))

----------------------------------------------------------------------------
(* searchWithFallback, lines 510-646.  `results` is the accumulator of       *)
(* {product, score}; `visits` counts the products read from the catalog.     *)

\* a variant that takes the name, not the code, as the identity of a product
InResultsByName(results, product) ==
    \E k \in 1..Len(results) : results[k].product.name = product.name

\* results.some(r => r.product.code === product.code)
InResults(results, product) ==
    \E k \in 1..Len(results) : results[k].product.code = product.code

\* results.push({ product, score })
Push(results, product, score) ==
    Append(results, [product |-> product, score |-> score])

\* Array.prototype.sort((a, b) => b.score - a.score): stable, descending
RECURSIVE SortByScore(_)
SortByScore(results) ==
    IF results = <<>> THEN <<>>
    ELSE LET front  == SortByScore(SubSeq(results, 1, Len(results) - 1))
             last   == results[Len(results)]
         IN  SelectSeq(front, LAMBDA r : r.score >= last.score)
                 \o <<last>>
                 \o SelectSeq(front, LAMBDA r : r.score < last.score)

\* .slice(0, n).map(item => item.product)
TopProducts(sorted, n) ==
    [k \in 1..(IF Len(sorted) < n THEN Len(sorted) ELSE n) |-> sorted[k].product]

\* the catalog with the products of `ranked` moved to the front, in that order
RankedFirst(ranked, catalog) ==
    ranked \o SelectSeq(catalog, LAMBDA p : \A k \in 1..Len(ranked) : ranked[k] # p)

\* a variant whose sort also reorders the catalog array, ranked products first
RankedSortingCatalog(results, n, catalog, visits) ==
    [result   |-> TopProducts(SortByScore(results), n),
     products |-> RankedFirst(TopProducts(SortByScore(results), Len(results)), catalog),
     visits   |-> visits]

\* results.sort(...).slice(0, n).map(...), lines 538-541 and 642-645: the sort
\* is in place on the local array `results`; the catalog array is left alone
Ranked(results, n, catalog, visits) ==
    [result   |-> TopProducts(SortByScore(results), n),
     products |-> catalog,
     visits   |-> visits]

\* FASE 1, lines 517-534: the code scan of one query variant, from product i
RECURSIVE codeScan(_, _, _, _, _, _, _)
codeScan(catalog, i, query, tokens, intent, results, visits) ==
    IF i > Len(catalog)
    THEN [exact |-> FALSE, results |-> results, visits |-> visits]
    ELSE LET product == catalog[i]
             \* lines 527-532, with the score of the product
             Matched(score) ==
                 LET Pushed(pushed) ==
                         IF Len(pushed) >= 3 /\ score >= 25000
                         THEN [exact |-> FALSE, results |-> pushed,
                               visits |-> visits + 1]
                         ELSE codeScan(catalog, i + 1, query, tokens, intent,
                                       pushed, visits + 1)
                 IN  Pushed(IF ~InResults(results, product)
                            THEN Push(results, product, score) ELSE results)
             Scanned(code) ==
                 IF code = query
                 THEN [exact |-> TRUE, product |-> product,
                       results |-> results, visits |-> visits + 1]
                 ELSE IF StartsWith(code, query) \/ Includes(code, query)
                 THEN Matched(scoreProduct(product, query, tokens, intent))
                 ELSE codeScan(catalog, i + 1, query, tokens, intent,
                               results, visits + 1)
         IN  Scanned(normalize(product.code))

\* FASE 2, lines 546-560: the name scan of one query variant, from product i
RECURSIVE nameScan(_, _, _, _, _, _, _)
nameScan(catalog, i, query, tokens, intent, results, visits) ==
    IF i > Len(catalog) THEN [results |-> results, visits |-> visits]
    ELSE LET product == catalog[i]
             \* lines 553-558, with the accumulator after the push
             Pushed(pushed) ==
                 IF Len(pushed) >= 10
                 THEN [results |-> pushed, visits |-> visits + 1]
                 ELSE nameScan(catalog, i + 1, query, tokens, intent,
                               pushed, visits + 1)
             Matched(score) ==
                 Pushed(IF score > 0 THEN Push(results, product, score) ELSE results)
             Scanned(name) ==
                 IF Includes(name, query) \/ fuzzyMatch(name, query)
                 THEN Matched(scoreProduct(product, query, tokens, intent))
                 ELSE nameScan(catalog, i + 1, query, tokens, intent,
                               results, visits + 1)
         IN  IF InResults(results, product)
             THEN nameScan(catalog, i + 1, query, tokens, intent, results, visits + 1)
             ELSE Scanned(normalize(product.name))

\* lines 515-565: the loop over the query variants, from variant k (1-based).
\* exit says how the loop ended: "exact" and "strong" are the two returns from
\* inside it (lines 522 and 538), "loop" is the loop ending or breaking.
\* scans records the accumulator after every code scan that ran to its end.
RECURSIVE variantLoop(_, _, _, _, _, _, _, _)
variantLoop(catalog, queries, k, tokens, intent, results, visits, scans) ==
    IF k > Len(queries)
    THEN [exit |-> "loop", results |-> results, visits |-> visits, scans |-> scans]
    ELSE LET \* lines 564-565, after the name scan
             AfterNameScan(named, seen) ==
                 IF Len(named.results) >= 5
                 THEN [exit |-> "loop", results |-> named.results,
                       visits |-> named.visits, scans |-> seen]
                 ELSE variantLoop(catalog, queries, k + 1, tokens, intent,
                                  named.results, named.visits, seen)
             \* lines 537-561, after the code scan
             AfterCodeScan(scan) ==
                 IF scan.exact
                 THEN [exit |-> "exact", product |-> scan.product,
                       results |-> scan.results, visits |-> scan.visits,
                       scans |-> scans]
                 ELSE IF Len(scan.results) > 0 /\ scan.results[1].score >= 50000
                 THEN [exit |-> "strong", results |-> scan.results,
                       visits |-> scan.visits, scans |-> Append(scans, scan.results)]
                 ELSE AfterNameScan(
                         IF Len(scan.results) < 5
                         THEN nameScan(catalog, 1, queries[k], tokens, intent,
                                       scan.results, scan.visits)
                         ELSE [results |-> scan.results, visits |-> scan.visits],
                         Append(scans, scan.results))
         IN  AfterCodeScan(codeScan(catalog, 1, queries[k], tokens, intent,
                                    results, visits))

\* FASE 3, lines 569-578: the multi-token broadening, from product i
RECURSIVE multiTokenScan(_, _, _, _, _, _, _)
multiTokenScan(catalog, i, query, tokens, intent, results, visits) ==
    IF i > Len(catalog) THEN [results |-> results, visits |-> visits]
    ELSE LET product == catalog[i]
             Pushed(pushed) ==
                 IF Len(pushed) >= 15
                 THEN [results |-> pushed, visits |-> visits + 1]
                 ELSE multiTokenScan(catalog, i + 1, query, tokens, intent,
                                     pushed, visits + 1)
             Scored(score) ==
                 Pushed(IF score >= 3000 THEN Push(results, product, score) ELSE results)
         IN  IF InResults(results, product)
             THEN multiTokenScan(catalog, i + 1, query, tokens, intent,
                                 results, visits + 1)
             ELSE Scored(scoreProduct(product, query, tokens, intent))

\* FASE 4 and FASE 5, lines 583-595 and 600-612: the scan of one optional field
\* ("category" or "description") for the original query, from product i
RECURSIVE fieldScan(_, _, _, _, _, _, _, _)
fieldScan(catalog, i, field, query, tokens, intent, results, visits) ==
    IF i > Len(catalog) THEN [results |-> results, visits |-> visits]
    ELSE LET product == catalog[i]
             Pushed(pushed) ==
                 IF Len(pushed) >= 10
                 THEN [results |-> pushed, visits |-> visits + 1]
                 ELSE fieldScan(catalog, i + 1, field, query, tokens, intent,
                                pushed, visits + 1)
             Scored(score) ==
                 Pushed(IF score > 0 THEN Push(results, product, score) ELSE results)
         IN  IF InResults(results, product)
             THEN fieldScan(catalog, i + 1, field, query, tokens, intent,
                            results, visits + 1)
             ELSE IF Includes(normalize(product[field]), query)
             THEN Scored(scoreProduct(product, query, tokens, intent))
             ELSE Pushed(results)

\* FASE 6, lines 620-635: the scan for one token, from product i
RECURSIVE tokenScan(_, _, _, _, _)
tokenScan(catalog, i, token, results, visits) ==
    IF i > Len(catalog) THEN [results |-> results, visits |-> visits]
    ELSE LET product == catalog[i]
             Pushed(pushed) ==
                 IF Len(pushed) >= 5
                 THEN [results |-> pushed, visits |-> visits + 1]
                 ELSE tokenScan(catalog, i + 1, token, pushed, visits + 1)
         IN  IF InResults(results, product)
             THEN tokenScan(catalog, i + 1, token, results, visits + 1)
             ELSE Pushed(IF \/ Includes(normalize(product.code), token)
                            \/ Includes(normalize(product.name), token)
                            \/ Includes(normalize(product.category), token)
                         THEN Push(results, product, 1000)
                         ELSE results)

\* FASE 6, lines 617-638: the loop over the tokens, from token t
RECURSIVE lastResort(_, _, _, _, _)
lastResort(catalog, tokens, t, results, visits) ==
    IF t > Len(tokens) THEN [results |-> results, visits |-> visits]
    ELSE IF Len(tokens[t]) < 3
    THEN lastResort(catalog, tokens, t + 1, results, visits)
    ELSE LET Scanned(scan) ==
                 IF Len(scan.results) > 0 THEN scan
                 ELSE lastResort(catalog, tokens, t + 1, scan.results, scan.visits)
         IN  Scanned(tokenScan(catalog, 1, tokens[t], results, visits))

\* lines 568-579: FASE 3 on the accumulator acc = [results, visits]
multiTokenPhase(catalog, query, tokens, intent, acc) ==
    IF Len(acc.results) < 5 /\ Len(tokens) > 1
    THEN multiTokenScan(catalog, 1, query, tokens, intent, acc.results, acc.visits)
    ELSE [results |-> acc.results, visits |-> acc.visits]

\* lines 582-596: FASE 4
categoryPhase(catalog, query, tokens, intent, acc) ==
    IF Len(acc.results) < 3
    THEN fieldScan(catalog, 1, "category", query, tokens, intent,
                   acc.results, acc.visits)
    ELSE acc

\* lines 599-613: FASE 5
descriptionPhase(catalog, query, tokens, intent, acc) ==
    IF Len(acc.results) < 2 /\ Len(query) > 4
    THEN fieldScan(catalog, 1, "description", query, tokens, intent,
                   acc.results, acc.visits)
    ELSE acc

\* lines 616-639: FASE 6
lastResortPhase(catalog, tokens, acc) ==
    IF Len(acc.results) = 0 /\ Len(tokens) > 1
    THEN lastResort(catalog, tokens, 1, acc.results, acc.visits)
    ELSE acc

\* the value of one call: the list returned, the catalog array as the call
\* leaves it, the products read, how phases 1-2 ended, the code-scan record
Returned(out, exit, scans) ==
    [result |-> out.result, products |-> out.products, visits |-> out.visits,
     exit |-> exit, scans |-> scans]

searchWithFallback(catalog, queries, intent) ==
    LET \* lines 641-645, on the accumulator the phases leave
        Output(acc, scans) ==
            Returned(Ranked(acc.results, 5, catalog, acc.visits), "loop", scans)
        \* lines 567-645, after the loop over the variants
        AfterVariants(tokens, phase12) ==
            IF phase12.exit = "exact"
            THEN Returned([result |-> <<phase12.product>>, products |-> catalog,
                           visits |-> phase12.visits], "exact", phase12.scans)
            ELSE IF phase12.exit = "strong"
            THEN Returned(Ranked(phase12.results, 1, catalog, phase12.visits),
                          "strong", phase12.scans)
            ELSE Output(
                    lastResortPhase(catalog, tokens,
                      descriptionPhase(catalog, queries[1], tokens, intent,
                        categoryPhase(catalog, queries[1], tokens, intent,
                          multiTokenPhase(catalog, queries[1], tokens, intent,
                                          phase12)))),
                    phase12.scans)
        Tokenized(tokens) ==
            AfterVariants(tokens,
                variantLoop(catalog, queries, 1, tokens, intent, <<>>, 0, <<>>))
    IN  Tokenized(Tokens(queries[1]))

----------------------------------------------------------------------------
(* searchProducts, lines 649-664.  The value is the list returned, the       *)
(* catalog array as the call leaves it, and the number of products read.     *)

\* a variant without the early return on an empty normalized query
searchProductsNoEmptyGuard(catalog, rawQuery) ==
    LET query == normalize(rawQuery)
    IN  searchWithFallback(catalog, expandWithSynonyms(autoCorrect(query)),
                           classifyIntent(query))

searchProducts(catalog, rawQuery) ==
    LET query == normalize(rawQuery)
    IN  IF query = <<>>
        THEN Returned([result |-> <<>>, products |-> catalog, visits |-> 0],
                      "empty", <<>>)
        ELSE searchWithFallback(catalog, expandWithSynonyms(autoCorrect(query)),
                                classifyIntent(query))

----------------------------------------------------------------------------
(* The inputs: catalogs and raw queries *)

\* the product records a products.json may hold
Pool ==
  <<
     [code |-> <<"X","C","A","V","O">>,
      name |-> <<"f","i","l","o"," ","3","m">>,
      category |-> Absent,
      description |-> Absent],
     [code |-> <<"C","A","V","O","1">>,
      name |-> <<"c","a","v","o"," ","3","m">>,
      category |-> <<"c","a","v","o">>,
      description |-> Absent],
     [code |-> <<"A","B","1","2">>,
      name |-> <<"p","r","e","s","a"," ","1","0","a">>,
      category |-> <<"p","r","e","s","a">>,
      description |-> <<"p","r","e","s","a"," ","b","t","i","c","i","n","o">>],
     [code |-> <<"A","B","1","3">>,
      name |-> <<"p","r","e","s","a"," ","1","6","a">>,
      category |-> <<"p","r","e","s","a">>,
      description |-> Absent],
     [code |-> <<"A","B","1","4">>,
      name |-> <<"s","w","i","t","c","h"," ","1","0","a">>,
      category |-> <<"s","w","i","t","c","h">>,
      description |-> Absent],
     [code |-> <<"A","B","1">>,
      name |-> <<"l","a","m","p","a","d","i","n","a"," ","l","e","d">>,
      category |-> <<"l","a","m","p","a","d","a">>,
      description |-> Absent],
     [code |-> <<"A","B","1","2">>,
      name |-> <<"g","e","w","i","s","s">>,
      category |-> <<"g","e","w","i","s","s">>,
      description |-> Absent],
     [code |-> Absent,
      name |-> <<"p","r","e","s","a"," ","g","w">>,
      category |-> Absent,
      description |-> <<"s","c","a","t","o","l","a">>],
     [code |-> Absent,
      name |-> <<"q","u","a","d","r","o">>,
      category |-> Absent,
      description |-> Absent]
  >>

Reverse(s) == [i \in 1..Len(s) |-> s[Len(s) + 1 - i]]

\* the products of `base` at the positions in `picked`, in the order of `base`
RECURSIVE Pick(_, _, _)
Pick(base, picked, i) ==
    IF i > Len(base) THEN <<>>
    ELSE (IF i \in picked THEN <<base[i]>> ELSE <<>>) \o Pick(base, picked, i + 1)

\* the catalogs: up to MaxCatalog products of the pool, in the pool's order or
\* in the reverse order
Catalogs ==
    { Pick(base, picked, 1) :
        base \in {Pool, Reverse(Pool)},
        picked \in {S \in SUBSET (1..Len(Pool)) : Cardinality(S) <= MaxCatalog} }

\* the raw queries a caller passes
RawQueries ==
  {
     <<"a","b","1">>,
     <<"A","B","1","2">>,
     <<"c","a","v","o">>,
     <<"g","e","w","i","s","s">>,
     <<"!","!">>,
     <<"p","r","e","s","a"," ","1","6","a">>,
     <<"l","a","m","p","a","d","i","n","s"," ","l","e","d">>,
     <<"a">>,
     <<"x","x"," ","s","w","i","t","c","h">>,
     <<" ","TAB">>,
     <<>>
  }

----------------------------------------------------------------------------
(* The calls *)

NoCall == [fn |-> "none", arg |-> <<>>, ret |-> <<>>]

NoResponse == [route |-> "none"]

\* the server once startServer has loaded the array `data` and listens
Serving(data) ==
    /\ isReady = TRUE
    /\ loadError = "null"
    /\ loadedAt = 1
    /\ productCount = Len(data)
    /\ fileKind = "array"
    /\ listening = TRUE
    /\ lastLoad = [count |-> 1, ok |-> TRUE, installed |-> data]
    /\ response = NoResponse

Init ==
    /\ dataFile \in Catalogs
    /\ products = dataFile
    /\ Serving(dataFile)
    /\ SYNONYMS = SynonymEntries
    /\ AUTO_CORRECTIONS = AutoCorrectionEntries
    /\ call = NoCall
    /\ ncalls = 0

\* a caller runs searchProducts(appState.products, rawQuery) to completion
CallSearchProducts(rawQuery) ==
    /\ \E r \in {searchProducts(products, rawQuery)} :
          /\ call' = [fn |-> "searchProducts", arg |-> rawQuery, ret |-> r.result,
                      visits |-> r.visits, exit |-> r.exit, scans |-> r.scans]
          /\ products' = r.products
    /\ ncalls' = ncalls + 1
    /\ UNCHANGED <<dataFile, SYNONYMS, AUTO_CORRECTIONS, server>>

\* one call on one catalog
Next == \E rawQuery \in RawQueries : ncalls = 0 /\ CallSearchProducts(rawQuery)

Spec == Init /\ [][Next]_vars

\* the raw queries of the callers that share a catalog
SharedQueries ==
  {
     <<"a","b","1">>,
     <<"c","a","v","o">>,
     <<"p","r","e","s","a"," ","1","6","a">>,
     <<"!","!">>
  }

\* several calls, one after the other (a call runs to completion: the code has no
\* suspension point), on a catalog of up to MaxShared products
InitCallers == Init /\ Len(dataFile) <= MaxShared

NextCallers ==
    \E rawQuery \in SharedQueries : ncalls < MaxCalls /\ CallSearchProducts(rawQuery)

SpecCallers == InitCallers /\ [][NextCallers]_vars

----------------------------------------------------------------------------
(* Properties of searchProducts, under Spec *)

\* the last call was searchProducts on a query that normalizes to `query`
Searched(query) == call.fn = "searchProducts" /\ normalize(call.arg) = query

\* the positions of the catalog whose code normalizes to `query`
ExactCodes(query) ==
    {i \in 1..Len(products) : normalize(products[i].code) = query}

\* C1: whenever the catalog holds a product whose code normalizes exactly to
\* the (non-empty) normalized query, searchProducts returns the one-element
\* list of such a product, whatever the other products, their order and scores.
C1_ExactCodeReturnsThatProduct ==
    call.fn = "searchProducts" =>
        LET query == normalize(call.arg)
        IN  (query # <<>> /\ ExactCodes(query) # {}) =>
                \E i \in ExactCodes(query) : call.ret = <<products[i]>>

\* C2: the list searchProducts returns has at most 5 elements, and no two of
\* them have the same code (two products without a code have the same code).
C2_AtMostFiveDistinctCodes ==
    call.fn = "searchProducts" =>
        /\ Len(call.ret) <= 5
        /\ \A a, b \in 1..Len(call.ret) :
              a # b => call.ret[a].code # call.ret[b].code

\* C2, the case: a full list of 5 from a catalog in which two products share a
\* code, one of them returned
C2_FullListWitness ==
    /\ call.fn = "searchProducts"
    /\ Len(call.ret) = 5
    /\ \E i, j \in 1..Len(products) :
          /\ i # j
          /\ products[i].code = products[j].code
          /\ \E a \in 1..Len(call.ret) : call.ret[a] = products[i]

\* C3: when the normalized query is not empty and occurs in the normalized
\* code, name or category of some product, searchProducts returns a non-empty
\* list.
C3_PlausibleMatchIsFound ==
    call.fn = "searchProducts" =>
        LET query == normalize(call.arg)
        IN  (/\ query # <<>>
             /\ \E i \in 1..Len(products) :
                   \/ Includes(normalize(products[i].code), query)
                   \/ Includes(normalize(products[i].name), query)
                   \/ Includes(normalize(products[i].category), query))
            => call.ret # <<>>

\* C4: when the raw query normalizes to the empty string, searchProducts
\* returns the empty list and reads no product of the catalog.
C4_EmptyQueryReturnsEmpty ==
    Searched(<<>>) => call.ret = <<>> /\ call.visits = 0

\* C4, the case: a raw query that is not empty but normalizes to the empty
\* string, on a catalog that holds a product without a code
C4_StrippedQueryWitness ==
    /\ Searched(<<>>)
    /\ call.arg # <<>>
    /\ \E i \in 1..Len(products) : products[i].code = Absent
    /\ call.ret = <<>>

\* C7: after the code scan of a query variant, whenever the highest score
\* among the accumulated candidates is 5000 or more (50000 tenths), that scan
\* is the last one, no later phase runs, and the list returned is the one
\* accumulated product with the highest score.
C7_BestScoreStopsTheSearch ==
    call.fn = "searchProducts" =>
        \A k \in 1..Len(call.scans) :
            LET accumulated == call.scans[k]
            IN  (\E j \in 1..Len(accumulated) : accumulated[j].score >= 50000) =>
                    /\ k = Len(call.scans)
                    /\ call.exit = "strong"
                    /\ Len(call.ret) = 1
                    /\ \E j \in 1..Len(accumulated) :
                          /\ accumulated[j].product = call.ret[1]
                          /\ \A l \in 1..Len(accumulated) :
                                accumulated[l].score <= accumulated[j].score

----------------------------------------------------------------------------
(* Properties of several calls on a shared catalog, under SpecCallers *)

\* C5: after any number of searchProducts calls by any callers, the catalog is
\* the sequence that was loaded (same products, same order, same fields), the
\* two dictionaries are the ones of the source, and the last call returned
\* what it returns when run alone on the loaded catalog.
C5_SearchMutatesNothing ==
    /\ products = dataFile
    /\ SYNONYMS = SynonymEntries
    /\ AUTO_CORRECTIONS = AutoCorrectionEntries
    /\ call.fn = "searchProducts" =>
          call.ret = searchProducts(dataFile, call.arg).result

\* C5, the case: a second call returned, after sorting, a list whose order is
\* not the order of the catalog
C5_SecondCallSortedWitness ==
    /\ ncalls = 2
    /\ call.fn = "searchProducts"
    /\ Len(call.ret) = 2
    /\ call.ret[1] = products[2]
    /\ call.ret[2] = products[1]

----------------------------------------------------------------------------
(* The text functions on their own: one call of one function on one input *)

\* every sequence over S of length at most n
SeqsUpTo(S, n) == UNION {[1..k -> S] : k \in 0..n}

\* the characters of the raw texts handed to normalize
RawAlphabet == {"a", "B", "1", " ", "TAB", "!", "E_GRAVE", "CIRCUMFLEX", "-"}

RawTexts == SeqsUpTo(RawAlphabet, MaxText) \cup {Absent}

\* the words of the queries handed to autoCorrect and expandWithSynonyms
Words ==
  {
     <<"l","a","m","p","a","d","i","n","s">>,
     <<"g","e","w","i","s">>,
     <<"b","t","c","i","n","o">>,
     <<"l","a","m","p","a","d","a">>,
     <<"l","e","d">>,
     <<"c","a","v","o">>,
     <<"a","b","b">>,
     <<"g","w">>,
     <<"1","0","a">>
  }

\* the words joined by single spaces
RECURSIVE Join(_)
Join(ws) ==
    IF ws = <<>> THEN <<>>
    ELSE IF Len(ws) = 1 THEN ws[1]
    ELSE ws[1] \o <<" ">> \o Join(Tail(ws))

\* the normalized queries searchProducts hands to autoCorrect (line 657)
NormalizedQueries == {normalize(Join(ws)) : ws \in SeqsUpTo(Words, MaxWords)}

\* the characters of the strings handed to fuzzyMatch
MatchAlphabet == {"a", "b"}

InitText ==
    /\ dataFile = <<>>
    /\ products = <<>>
    /\ Serving(<<>>)
    /\ SYNONYMS = SynonymEntries
    /\ AUTO_CORRECTIONS = AutoCorrectionEntries
    /\ call = NoCall
    /\ ncalls = 0

\* what a call of a text function leaves: `ret` is what it returned on `arg`
Called(fn, arg, ret) == [fn |-> fn, arg |-> arg, ret |-> ret]

CallNormalize(value) ==
    /\ call' = Called("normalize", value, normalize(value))
    /\ ncalls' = ncalls + 1
    /\ UNCHANGED <<products, dataFile, SYNONYMS, AUTO_CORRECTIONS, server>>

CallAutoCorrect(query) ==
    /\ call' = Called("autoCorrect", query, autoCorrect(query))
    /\ ncalls' = ncalls + 1
    /\ UNCHANGED <<products, dataFile, SYNONYMS, AUTO_CORRECTIONS, server>>

\* line 660: expandWithSynonyms runs on what autoCorrect returned
CallExpandWithSynonyms(query) ==
    /\ \E corrected \in {autoCorrect(query)} :
          call' = Called("expandWithSynonyms", corrected, expandWithSynonyms(corrected))
    /\ ncalls' = ncalls + 1
    /\ UNCHANGED <<products, dataFile, SYNONYMS, AUTO_CORRECTIONS, server>>

CallFuzzyMatch(str, pattern) ==
    /\ call' = Called("fuzzyMatch", <<str, pattern>>, fuzzyMatch(str, pattern))
    /\ ncalls' = ncalls + 1
    /\ UNCHANGED <<products, dataFile, SYNONYMS, AUTO_CORRECTIONS, server>>

\* one call of one function on one input
NextText ==
    \/ ncalls = 0 /\ \E value \in RawTexts : CallNormalize(value)
    \/ ncalls = 0 /\ \E query \in NormalizedQueries : CallAutoCorrect(query)
    \/ ncalls = 0 /\ \E query \in NormalizedQueries : CallExpandWithSynonyms(query)
    \/ ncalls = 0 /\ \E str \in SeqsUpTo(MatchAlphabet, MaxHaystack),
                        pattern \in SeqsUpTo(MatchAlphabet, MaxPattern) :
                           CallFuzzyMatch(str, pattern)

SpecText == InitText /\ [][NextText]_vars

----------------------------------------------------------------------------
(* Properties of the text functions, under SpecText *)

\* C6: normalize is idempotent: normalizing what normalize returned gives it
\* back unchanged.
C6_NormalizeIdempotent ==
    call.fn = "normalize" => normalize(call.ret) = call.ret

\* C6, the case: a text that normalize changes into a non-empty text with a
\* space inside
C6_ChangedTextWitness ==
    /\ call.fn = "normalize"
    /\ call.ret # call.arg
    /\ \E i \in 1..Len(call.ret) : call.ret[i] = " "

\* String.prototype.replaceAll: every occurrence of p in s, left to right
RECURSIVE ReplaceAll(_, _, _)
ReplaceAll(s, p, r) ==
    IF p = <<>> \/ ~Includes(s, p) THEN s
    ELSE LET i == IndexOf(s, p)
         IN  SubSeq(s, 1, i) \o r
                \o ReplaceAll(SubSeq(s, i + Len(p) + 1, Len(s)), p, r)

\* the positions of the correction table whose error key occurs in `normalized`
MatchingErrors(normalized) ==
    {i \in 1..Len(AUTO_CORRECTIONS) : Includes(normalized, AUTO_CORRECTIONS[i].error)}

\* the greatest element of a non-empty set of numbers
Last(S) == CHOOSE m \in S : \A x \in S : x <= m

\* C8: autoCorrect(q) is q when no error key occurs in normalize(q); otherwise
\* it is normalize(q) with all the occurrences of the last matching error key
\* replaced by its correction, earlier matching keys having no effect.
C8_LastKeyAllOccurrences ==
    call.fn = "autoCorrect" =>
        LET normalized == normalize(call.arg)
            matching   == MatchingErrors(normalized)
        IN  IF matching = {} THEN call.ret = call.arg
            ELSE call.ret = ReplaceAll(normalized,
                                       AUTO_CORRECTIONS[Last(matching)].error,
                                       AUTO_CORRECTIONS[Last(matching)].correction)

\* where a variant is generated: entry i of the dictionary, phase 1 (the key
\* replaced by synonym j) or phase 2 (synonym j replaced by the key)
Slots(normalized) ==
    {s \in UNION {{<<i, phase, j>> : phase \in {1, 2},
                                      j \in 1..Len(SYNONYMS[i].synonyms)} :
                  i \in 1..Len(SYNONYMS)} :
        IF s[2] = 1
        THEN Includes(normalized, SYNONYMS[s[1]].key)
        ELSE Includes(normalized, SYNONYMS[s[1]].synonyms[s[3]])}

\* the variant generated at a slot: the first occurrence is the one replaced
VariantAt(normalized, s) ==
    IF s[2] = 1
    THEN ReplaceFirst(normalized, SYNONYMS[s[1]].key, SYNONYMS[s[1]].synonyms[s[3]])
    ELSE ReplaceFirst(normalized, SYNONYMS[s[1]].synonyms[s[3]], SYNONYMS[s[1]].key)

\* dictionary iteration order, keys before synonyms, then synonym order
SlotBefore(s, t) ==
    \/ s[1] < t[1]
    \/ s[1] = t[1] /\ s[2] < t[2]
    \/ s[1] = t[1] /\ s[2] = t[2] /\ s[3] < t[3]

\* C9: expandWithSynonyms(q) returns a list without duplicates whose first
\* element is q and whose elements are q and, for every key occurring in
\* normalize(q), the query with the key replaced by each synonym, and for
\* every synonym occurring in it, the query with the synonym replaced by the
\* key; the variants are in the order of their first generation: dictionary
\* order, then synonym order.
C9_ExpansionListsVariantsInOrder ==
    call.fn = "expandWithSynonyms" =>
        LET normalized == normalize(call.arg)
            slots      == Slots(normalized)
            ret        == call.ret
        IN  /\ Len(ret) >= 1 /\ ret[1] = call.arg
            /\ \A a, b \in 1..Len(ret) : a # b => ret[a] # ret[b]
            /\ {ret[a] : a \in 1..Len(ret)}
                  = {call.arg} \cup {VariantAt(normalized, s) : s \in slots}
            /\ \A a, b \in 2..Len(ret) :
                  a < b =>
                     \E s \in slots :
                        /\ VariantAt(normalized, s) = ret[a]
                        /\ \A t \in slots :
                              VariantAt(normalized, t) = ret[b] => SlotBefore(s, t)

\* C9, the case: a query in which a key and a synonym occur, expanded in both
\* directions, with a variant that is generated at two places and listed once
C9_BothDirectionsWitness ==
    /\ call.fn = "expandWithSynonyms"
    /\ \E s, t, u \in Slots(normalize(call.arg)) :
          /\ s[2] = 1
          /\ VariantAt(normalize(call.arg), s) # call.arg
          /\ t[2] = 2
          /\ u # t
          /\ VariantAt(normalize(call.arg), u) = VariantAt(normalize(call.arg), t)
    /\ Len(call.ret) >= 3

\* the aligned positions at which the window of str at offset i differs from pattern
Differences(str, pattern, i) ==
    {j \in 1..Len(pattern) : str[i + j] # pattern[j]}

\* C10: fuzzyMatch(haystack, pattern) is true exactly when pattern is a
\* substring of haystack, or pattern has at least 3 characters and some window
\* of haystack of the length of pattern differs from it in at most one
\* position; a pattern shorter than 3 matches only as a substring, and a
\* pattern longer than the haystack never matches.
C10_FuzzyMatchIsOneSubstitution ==
    call.fn = "fuzzyMatch" =>
        LET haystack == call.arg[1]
            pattern  == call.arg[2]
        IN  /\ call.ret =
                  (\/ Includes(haystack, pattern)
                   \/ /\ Len(pattern) >= 3
                      /\ \E i \in 0..(Len(haystack) - Len(pattern)) :
                            Cardinality(Differences(haystack, pattern, i)) <= 1)
            /\ Len(pattern) < 3 => call.ret = Includes(haystack, pattern)
            /\ Len(pattern) > Len(haystack) => call.ret = FALSE

\* C10, the case: a pattern of 3 characters or more that is not a substring
\* and matches a window with one substitution
C10_OneSubstitutionWitness ==
    /\ call.fn = "fuzzyMatch"
    /\ call.ret = TRUE
    /\ Len(call.arg[2]) >= 3
    /\ ~Includes(call.arg[1], call.arg[2])

----------------------------------------------------------------------------
(* The server: appState (lines 18-24), loadProducts (39-97), GET /health     *)
(* (131-152), GET /search (157-210), POST /admin/reload (215-223) and         *)
(* startServer (258-286).  Every handler is synchronous and runs to its end. *)

\* most loadProducts runs in a behaviour
MaxLoads == 3

\* an element of products.json that is not an object: null
Null == [null |-> TRUE]

\* the arrays products.json may hold
ServerCatalogs ==
    { <<>>,
      <<Null>>,
      <<Pool[1], Pool[2]>>,
      <<Pool[3], Pool[4], Pool[5], Pool[6]>> }

FileKinds == {"missing", "empty", "invalid", "not_array", "array"}

\* req.query.q: absent, or the raw text of the parameter
RequestQueries ==
  {
     Absent,
     <<"a">>,
     <<" ","a","TAB">>,
     <<"a","b","1">>,
     <<" ","c","a","v","o"," ">>,
     <<"!","!">>
  }

\* lines 46-65: the message of the error the load throws on the file at
\* DATA_PATH, "null" when it throws none
LoadFailure ==
    IF fileKind = "missing" THEN "File not found"
    ELSE IF fileKind = "empty" THEN "products.json is empty"
    ELSE IF fileKind = "invalid" THEN "Unexpected token in JSON"
    ELSE IF fileKind = "not_array" THEN "products.json must be an array"
    ELSE "null"

\* a variant whose catch branch does not reset appState.products
loadProductsKeepingCatalog ==
    /\ lastLoad.count < MaxLoads
    /\ IF LoadFailure = "null"
       THEN /\ products' = dataFile
            /\ isReady' = TRUE
            /\ loadedAt' = lastLoad.count + 1
            /\ productCount' = Len(dataFile)
            /\ loadError' = "null"
            /\ lastLoad' = [count |-> lastLoad.count + 1, ok |-> TRUE,
                            installed |-> dataFile]
       ELSE /\ products' = products
            /\ isReady' = FALSE
            /\ loadError' = LoadFailure
            /\ productCount' = 0
            /\ loadedAt' = loadedAt
            /\ lastLoad' = [lastLoad EXCEPT !.count = @ + 1, !.ok = FALSE]

\* loadProducts, lines 39-97: the value it returns is isReady'
loadProducts ==
    /\ lastLoad.count < MaxLoads
    /\ IF LoadFailure = "null"
       THEN /\ products' = dataFile
            /\ isReady' = TRUE
            /\ loadedAt' = lastLoad.count + 1
            /\ productCount' = Len(dataFile)
            /\ loadError' = "null"
            /\ lastLoad' = [count |-> lastLoad.count + 1, ok |-> TRUE,
                            installed |-> dataFile]
       ELSE /\ products' = <<>>
            /\ isReady' = FALSE
            /\ loadError' = LoadFailure
            /\ productCount' = 0
            /\ loadedAt' = loadedAt
            /\ lastLoad' = [lastLoad EXCEPT !.count = @ + 1, !.ok = FALSE]

\* the state the module's top-level code leaves before startServer: the
\* appState literal, whatever is on disk
InitServer ==
    /\ products = <<>>
    /\ isReady = FALSE
    /\ loadError = "null"
    /\ loadedAt = 0
    /\ productCount = 0
    /\ fileKind \in FileKinds
    /\ dataFile \in (IF fileKind = "array" THEN ServerCatalogs ELSE {<<>>})
    /\ listening = FALSE
    /\ lastLoad = [count |-> 0, ok |-> FALSE, installed |-> <<>>]
    /\ response = NoResponse
    /\ SYNONYMS = SynonymEntries
    /\ AUTO_CORRECTIONS = AutoCorrectionEntries
    /\ call = NoCall
    /\ ncalls = 0

\* startServer, lines 258-286: the load, then app.listen whatever it returned
StartServer ==
    /\ ~listening
    /\ loadProducts
    /\ listening' = TRUE
    /\ UNCHANGED <<dataFile, fileKind, SYNONYMS, AUTO_CORRECTIONS, call, ncalls,
                   response>>

\* GET /health, lines 131-152
Health ==
    /\ listening
    /\ response' = [route  |-> "/health",
                    status |-> IF isReady THEN 200 ELSE 503,
                    body   |-> [status   |-> IF isReady THEN "ok" ELSE "degraded",
                                count    |-> productCount,
                                loadedAt |-> loadedAt,
                                error    |-> loadError]]
    /\ UNCHANGED <<products, dataFile, SYNONYMS, AUTO_CORRECTIONS, call, ncalls,
                   isReady, loadError, loadedAt, productCount, fileKind,
                   listening, lastLoad>>

\* line 518 on an element that is null: reading product.code throws, once the
\* code scan starts on a catalog whose first element is null
Throws(catalog, query) ==
    catalog # <<>> /\ catalog[1] = Null /\ normalize(query) # <<>>

\* the body of a /search response
SearchResponse(status, query, results) ==
    [route |-> "/search", status |-> status, query |-> query,
     count |-> Len(results), results |-> results]

\* GET /search, lines 157-210.  `call` is the searchProducts call the request
\* made, NoCall when it made none.
Search(q) ==
    /\ listening
    /\ ncalls < MaxCalls
    /\ \E query \in {Trim(ToStr(q))} :
          IF ~isReady
          THEN /\ response' = SearchResponse(503, query, <<>>)
               /\ call' = NoCall
               /\ UNCHANGED <<products, ncalls>>
          ELSE IF Len(query) < 2
          THEN /\ response' = SearchResponse(200, query, <<>>)
               /\ call' = NoCall
               /\ UNCHANGED <<products, ncalls>>
          ELSE IF Throws(products, query)
          THEN /\ response' = SearchResponse(500, query, <<>>)
               /\ call' = [fn |-> "searchProducts", arg |-> query,
                           catalog |-> products, ret |-> <<>>, threw |-> TRUE]
               /\ UNCHANGED <<products, ncalls>>
          ELSE \E r \in {searchProducts(products, query)} :
                  /\ response' = SearchResponse(200, query, r.result)
                  /\ call' = [fn |-> "searchProducts", arg |-> query,
                              catalog |-> products, ret |-> r.result,
                              threw |-> FALSE]
                  /\ products' = r.products
                  /\ ncalls' = ncalls + 1
    /\ UNCHANGED <<dataFile, SYNONYMS, AUTO_CORRECTIONS, isReady, loadError,
                   loadedAt, productCount, fileKind, listening, lastLoad>>

\* POST /admin/reload, lines 215-223
Reload ==
    /\ listening
    /\ loadProducts
    /\ response' = [route |-> "/admin/reload", status |-> 200,
                    success |-> isReady', productCount |-> productCount',
                    error |-> loadError']
    /\ UNCHANGED <<dataFile, fileKind, SYNONYMS, AUTO_CORRECTIONS, call, ncalls,
                   listening>>

\* the environment: products.json is removed, truncated or rewritten
ChangeFile ==
    /\ \E kind \in FileKinds :
          \E data \in (IF kind = "array" THEN ServerCatalogs ELSE {<<>>}) :
             /\ kind # fileKind \/ data # dataFile
             /\ fileKind' = kind
             /\ dataFile' = data
    /\ UNCHANGED <<products, SYNONYMS, AUTO_CORRECTIONS, call, ncalls, isReady,
                   loadError, loadedAt, productCount, listening, lastLoad,
                   response>>

NextServer ==
    \/ StartServer
    \/ Health
    \/ \E q \in RequestQueries : Search(q)
    \/ Reload
    \/ ChangeFile

SpecServer == InitServer /\ [][NextServer]_vars

----------------------------------------------------------------------------
(* Properties of the server, under SpecServer *)

\* C11: after any sequence of loads (startup and reloads, succeeding or
\* failing), requests and file changes: isReady is true exactly when the most
\* recent load succeeded; isReady implies loadError is null; productCount is
\* the length of products; a failed load leaves products empty; /health
\* answers 200 when isReady and 503 otherwise; /search calls searchProducts
\* exactly when isReady and the trimmed query has 2 characters or more,
\* answers 503 with empty results when not ready, and hands searchProducts the
\* whole array the most recent successful load installed.
C11_ServerStateAndRoutes ==
    /\ isReady = (lastLoad.count > 0 /\ lastLoad.ok)
    /\ isReady => loadError = "null"
    /\ productCount = Len(products)
    /\ (lastLoad.count > 0 /\ ~lastLoad.ok) => products = <<>>
    /\ isReady => products = lastLoad.installed
    /\ response.route = "/health" =>
          response.status = (IF isReady THEN 200 ELSE 503)
    /\ response.route = "/search" =>
          /\ (call.fn = "searchProducts") = (isReady /\ Len(response.query) >= 2)
          /\ ~isReady =>
                /\ response.status = 503
                /\ response.results = <<>>
                /\ response.count = 0
          /\ call.fn = "searchProducts" =>
                /\ call.arg = response.query
                /\ call.catalog = lastLoad.installed

\* C11, the case: a reload failed after a load had installed a catalog, and a
\* /search request with a query long enough was then answered 503
C11_DegradedAfterReloadWitness ==
    /\ response.route = "/search"
    /\ response.status = 503
    /\ Len(response.query) >= 2
    /\ lastLoad.count >= 2
    /\ lastLoad.installed # <<>>
    /\ products = <<>>

====
